---- MODULE Spec2Model ----
(***************************************************************************)
(* The axis multiplexer of composite-joystick (src/src/joystick_mux.rs):   *)
(* JoystickMux keeps the last event of every input axis and the combine    *)
(* function of every output axis, and computes output values on demand.    *)
(* The report encoder (src/src/report.rs): make_report packs a list of     *)
(* (event code, value) entries into the 22 bytes of the HID report.        *)
(***************************************************************************)
EXTENDS Integers, Sequences, FiniteSets, TLC

VARIABLES axis_states, axes, output_s, chan, state, bytes,
          updates, worker, main, read, applied, taken, received, accessed,
          device, input_axes

\* the run pipeline: the device channels, the position of every
\* handle_device loop and of the main loop, and the record of what was read,
\* applied, sent, received and by whom the multiplexer was used
runvars == <<updates, worker, main, read, applied, taken, received, accessed>>

\* get_input_axes: the device asked and the map returned
devvars == <<device, input_axes>>

vars == <<axis_states, axes, output_s, chan, state, bytes, runvars, devvars>>

(***************************************************************************)
(* Program constants and model bounds                                      *)
(***************************************************************************)
OUTPUT_UPPER_BOUND == 32767

OUTPUT_LOWER_BOUND == -32767

\* longest input list of a combine function the model configures
MaxInputs == 2

\* most snapshots waiting in the output channel
MaxChan == 1

\* longest entry list handed to make_report
MaxEntries == 3

\* most events the devices deliver in a run of the pipeline
MaxReads == 6

\* crossbeam_channel::bounded::<AxisUpdate>(5): the capacity of the channel
\* of every device
ChannelCap == 5

(***************************************************************************)
(* Identifiers and the values the model draws its inputs from              *)
(***************************************************************************)
InputAxisId(j, code) == [joystick |-> j, axis |-> code]

InputAxis(id, lo, hi) == [id |-> id, lower_bound |-> lo, upper_bound |-> hi]

\* impl Neg for InputAxis: the two bounds change places
\* a negation that leaves the bounds where they are
NegKeepsBounds(input) ==
    [id |-> input.id, lower_bound |-> input.lower_bound,
     upper_bound |-> input.upper_bound]

Neg(input) ==
    [id |-> input.id, lower_bound |-> input.upper_bound,
     upper_bound |-> input.lower_bound]

JoystickIds == {0, 1}

\* the same code on two devices
InputAxisIds == {InputAxisId(j, "ABS_X") : j \in JoystickIds}

\* event.value is an i32; values inside and outside every declared range
RawValues == {-5, -1, 0, 1, 5, 40000}

\* declared input axes: a small range and its inversion, the identity
\* range, an asymmetric range and a range of zero width
InputAxes ==
    {InputAxis(InputAxisId(0, "ABS_X"), -5, 5),
     Neg(InputAxis(InputAxisId(0, "ABS_X"), -5, 5)),
     InputAxis(InputAxisId(0, "ABS_X"), -32767, 32767),
     InputAxis(InputAxisId(1, "ABS_X"), 0, 255),
     InputAxis(InputAxisId(1, "ABS_X"), 0, 0)}

InputLists == UNION {[1..n -> InputAxes] : n \in 0..MaxInputs}

\* ButtonMode, as configure_mux in configuration.rs passes it to Button
ButtonModes == {"NonZero", "Positive", "Negative"}

\* enum AxisCombineFn; every variant carries the same fields so that two
\* combine functions can always be compared.  Button carries the mode its
\* callers give it
NoInputId == InputAxisId(0, "ABS_X")

LargestMagnitude(inputs) ==
    [kind |-> "LargestMagnitude", mode |-> "NonZero", inputs |-> inputs,
     x |-> NoInputId, y |-> NoInputId]

Button(mode, inputs) ==
    [kind |-> "Button", mode |-> mode, inputs |-> inputs,
     x |-> NoInputId, y |-> NoInputId]

Hat(x, y) ==
    [kind |-> "Hat", mode |-> "NonZero", inputs |-> <<>>, x |-> x, y |-> y]

AxisCombineFn ==
    {LargestMagnitude(inputs) : inputs \in InputLists}
    \cup {Button(m, inputs) : m \in ButtonModes, inputs \in InputLists}
    \cup {Hat(x, y) : x \in InputAxisIds, y \in InputAxisIds}

OutputAxisIds == {"ABS_X"}

SynCode == "SYN_REPORT"

(***************************************************************************)
(* Option<i64>, and the abort of a panicking evaluation                    *)
(***************************************************************************)
Some(v) == [tag |-> "Some", val |-> v]

None == [tag |-> "None", val |-> 0]

Panic == [tag |-> "Panic", val |-> 0]

(***************************************************************************)
(* i64 arithmetic                                                          *)
(***************************************************************************)
Abs(n) == IF n < 0 THEN -n ELSE n

Signum(n) == IF n > 0 THEN 1 ELSE IF n < 0 THEN -1 ELSE 0

\* (a * m) / d as the program computes it in i64, where the product never
\* overflows and the quotient is rounded toward zero (m >= 0, d # 0).  The
\* checker's integers are 32 bits wide, so the quotient is assembled from
\* |a| = QA * |d| + RA and the two base-256 digits of m without ever
\* forming a * m: |a| * m = QA * m * |d| + RA * m.
MulDivMagnitude(a, m, d) ==
    LET A == Abs(a)
        D == Abs(d)
        QA == A \div D
        RA == A % D
        t1 == RA * (m \div 256)
        t2 == (t1 % D) * 256 + RA * (m % 256)
    IN <<QA * m + (t1 \div D) * 256 + (t2 \div D), t2 % D>>

\* a division that rounds toward minus infinity instead
MulDivFloor(a, m, d) ==
    LET qr == MulDivMagnitude(a, m, d) IN
    IF Signum(a) * Signum(d) < 0
    THEN IF qr[2] = 0 THEN -qr[1] ELSE -qr[1] - 1
    ELSE qr[1]

MulDiv(a, m, d) ==
    Signum(a) * Signum(d) * MulDivMagnitude(a, m, d)[1]

(***************************************************************************)
(* JoystickMux::output_axis                                                *)
(***************************************************************************)
\* self.axis_states.get(&id), reduced to the event's value
GetState(id) ==
    IF id \in DOMAIN axis_states THEN Some(axis_states[id]) ELSE None

\* a closure that rescales raw 0 for an input that was never observed
CandidateOfZero(input) ==
    LET st == GetState(input.id)
        value == IF st.tag = "Some" THEN st.val ELSE 0
    IN IF input.upper_bound - input.lower_bound = 0
       THEN Panic
       ELSE Some(OUTPUT_LOWER_BOUND
                 + MulDiv(value - input.lower_bound,
                          OUTPUT_UPPER_BOUND - OUTPUT_LOWER_BOUND,
                          input.upper_bound - input.lower_bound))

\* a closure that takes the smaller bound for the lower one
CandidateOrdered(input) ==
    LET st == GetState(input.id)
        lo == IF input.lower_bound < input.upper_bound
              THEN input.lower_bound ELSE input.upper_bound
        hi == IF input.lower_bound < input.upper_bound
              THEN input.upper_bound ELSE input.lower_bound
    IN IF st.tag = "Some"
       THEN IF hi - lo = 0
            THEN Panic
            ELSE Some(OUTPUT_LOWER_BOUND
                      + MulDiv(st.val - lo,
                               OUTPUT_UPPER_BOUND - OUTPUT_LOWER_BOUND,
                               hi - lo))
       ELSE Some(0)

\* the closure of the LargestMagnitude arm: one candidate per input
Candidate(input) ==
    LET st == GetState(input.id) IN
    IF st.tag = "Some"
    THEN IF input.upper_bound - input.lower_bound = 0
         THEN Panic
         ELSE Some(OUTPUT_LOWER_BOUND
                   + MulDiv(st.val - input.lower_bound,
                            OUTPUT_UPPER_BOUND - OUTPUT_LOWER_BOUND,
                            input.upper_bound - input.lower_bound))
    ELSE Some(0)

\* Iterator::max_by_key(|value| value.abs()) as the left fold the standard
\* library runs: the later element replaces the kept one unless the kept
\* one is strictly greater
RECURSIVE MaxByKeyAbsKeepFirst(_, _, _)
MaxByKeyAbsKeepFirst(s, i, best) ==
    IF i > Len(s) THEN best
    ELSE MaxByKeyAbsKeepFirst(s, i + 1,
                              IF Abs(best) >= Abs(s[i]) THEN best ELSE s[i])

RECURSIVE MaxByKeyAbsFrom(_, _, _)
MaxByKeyAbsFrom(s, i, best) ==
    IF i > Len(s) THEN best
    ELSE MaxByKeyAbsFrom(s, i + 1,
                         IF Abs(best) > Abs(s[i]) THEN best ELSE s[i])

MaxByKeyAbs(s) ==
    IF Len(s) = 0 THEN None ELSE Some(MaxByKeyAbsFrom(s, 2, s[1]))

LargestMagnitudeArm(inputs) ==
    LET cands == [i \in 1..Len(inputs) |-> Candidate(inputs[i])] IN
    IF \E i \in 1..Len(inputs) : cands[i].tag = "Panic"
    THEN Panic
    ELSE MaxByKeyAbs([i \in 1..Len(inputs) |-> cands[i].val])

\* a closure that takes an input without an event for a pressed one
ButtonInputPressedOrAbsent(input) ==
    LET st == GetState(input.id) IN
    IF st.tag = "Some" THEN st.val # 0 ELSE TRUE

\* the closure of the Button arm: event.value != 0, whatever the mode
ButtonInputPressed(input) ==
    LET st == GetState(input.id) IN
    IF st.tag = "Some" THEN st.val # 0 ELSE FALSE

\* Iterator::any over the mapped inputs
RECURSIVE AnyFrom(_, _)
AnyFrom(s, i) ==
    IF i > Len(s) THEN FALSE
    ELSE IF s[i] THEN TRUE ELSE AnyFrom(s, i + 1)

ButtonArm(inputs) ==
    LET pressed ==
            AnyFrom([i \in 1..Len(inputs) |-> ButtonInputPressed(inputs[i])], 1)
    IN IF pressed THEN Some(1) ELSE Some(0)

\* the value of a hat channel: 0 when it was never observed
HatChannel(id) ==
    LET st == GetState(id) IN IF st.tag = "Some" THEN st.val ELSE 0

\* an if-chain that compares with 1 and -1 where the code tests the sign
HatAngleUnit(x_val, y_val) ==
    IF x_val = 0 /\ y_val = 0 THEN Some(-1)
    ELSE IF x_val = 0 /\ y_val = -1 THEN Some(0)
    ELSE IF x_val = 1 /\ y_val = -1 THEN Some(1)
    ELSE IF x_val = 1 /\ y_val = 0 THEN Some(2)
    ELSE IF x_val = 1 /\ y_val = 1 THEN Some(3)
    ELSE IF x_val = 0 /\ y_val = 1 THEN Some(4)
    ELSE IF x_val = -1 /\ y_val = 1 THEN Some(5)
    ELSE IF x_val = -1 /\ y_val = 0 THEN Some(6)
    ELSE IF x_val = -1 /\ y_val = -1 THEN Some(7)
    ELSE Panic

\* the if-chain of the Hat arm; its last branch is unreachable!()
HatAngle(x_val, y_val) ==
    IF x_val = 0 /\ y_val = 0 THEN Some(-1)
    ELSE IF x_val = 0 /\ y_val < 0 THEN Some(0)
    ELSE IF x_val > 0 /\ y_val < 0 THEN Some(1)
    ELSE IF x_val > 0 /\ y_val = 0 THEN Some(2)
    ELSE IF x_val > 0 /\ y_val > 0 THEN Some(3)
    ELSE IF x_val = 0 /\ y_val > 0 THEN Some(4)
    ELSE IF x_val < 0 /\ y_val > 0 THEN Some(5)
    ELSE IF x_val < 0 /\ y_val = 0 THEN Some(6)
    ELSE IF x_val < 0 /\ y_val < 0 THEN Some(7)
    ELSE Panic

HatArm(x, y) == HatAngle(HatChannel(x), HatChannel(y))

output_axis(axis_id) ==
    IF axis_id \in DOMAIN axes
    THEN LET combine_fn == axes[axis_id] IN
         CASE combine_fn.kind = "Button" -> ButtonArm(combine_fn.inputs)
           [] combine_fn.kind = "LargestMagnitude" ->
                  LargestMagnitudeArm(combine_fn.inputs)
           [] combine_fn.kind = "Hat" -> HatArm(combine_fn.x, combine_fn.y)
    ELSE None

\* a match that turns None into the hat's null value
output_value_null(axis_id) ==
    LET r == output_axis(axis_id) IN
    IF r.tag = "None" THEN Some(-1) ELSE r

\* the match inside JoystickMux::output: None becomes 0
output_value(axis_id) ==
    LET r == output_axis(axis_id) IN
    IF r.tag = "None" THEN Some(0) ELSE r

(***************************************************************************)
(* OutputState and JoystickMux::output                                     *)
(***************************************************************************)
\* evdev_rs::util::event_code_to_int: (event type, code number)
EventCodeInt(code) ==
    CASE code = "ABS_X" -> <<3, 0>>
      [] code = "ABS_Y" -> <<3, 1>>
      [] code = "ABS_HAT0X" -> <<3, 16>>
      [] code = "BTN_TRIGGER" -> <<1, 288>>

\* an order on the code numbers alone, the event type left out
OutputAxisIdLessByCode(a, b) == EventCodeInt(a)[2] < EventCodeInt(b)[2]

\* impl Ord for OutputAxisId
OutputAxisIdLess(a, b) ==
    LET ia == EventCodeInt(a)
        ib == EventCodeInt(b)
    IN ia[1] < ib[1] \/ (ia[1] = ib[1] /\ ia[2] < ib[2])

\* Ord of the tuple (OutputAxisId, i64): by id, then by value
EntryLess(p, q) ==
    OutputAxisIdLess(p[1], q[1]) \/ (p[1] = q[1] /\ p[2] < q[2])

\* one step of the sort: p goes after the entries that are not greater
InsertSorted(sorted, p) ==
    LET n == Cardinality({i \in 1..Len(sorted) : ~EntryLess(p, sorted[i])})
    IN SubSeq(sorted, 1, n) \o <<p>> \o SubSeq(sorted, n + 1, Len(sorted))

\* OutputState::sort on the first k entries
RECURSIVE SortPrefix(_, _)
SortPrefix(entries, k) ==
    IF k = 0 THEN <<>>
    ELSE InsertSorted(SortPrefix(entries, k - 1), entries[k])

\* the entries as collected, left in the order they arrived
OutputState_new_unsorted(entries) == entries

\* OutputState::new: the collected entries, sorted
OutputState_new(entries) == SortPrefix(entries, Len(entries))

\* the orders in which HashMap::iter may visit the keys: any order
IterOrders(keys) ==
    {order \in [1..Cardinality(keys) -> keys] :
        \A i, j \in 1..Cardinality(keys) : i # j => order[i] # order[j]}

\* JoystickMux::output when self.axes.iter() visits the keys in this order
output_from(order) ==
    IF \E i \in 1..Len(order) : output_value(order[i]).tag = "Panic"
    THEN Panic
    ELSE Some(OutputState_new(
             [i \in 1..Len(order) |-> <<order[i], output_value(order[i]).val>>]))

\* JoystickMux::output as a function of the state, for one iteration order
output == output_from(CHOOSE order \in IterOrders(DOMAIN axes) : TRUE)

(***************************************************************************)
(* Operations                                                              *)
(***************************************************************************)
\* no pipeline is running
RunIdle ==
    /\ updates = <<>>
    /\ worker = <<>>
    /\ main = "select"
    /\ read = <<>>
    /\ applied = <<>>
    /\ taken = <<>>
    /\ received = <<>>
    /\ accessed = {}

\* no device has been asked for its axes
DevIdle ==
    /\ device = None
    /\ input_axes = None

\* JoystickMux::new(None), as every unit test constructs it
Init ==
    /\ axis_states = <<>>
    /\ axes = <<>>
    /\ output_s = FALSE
    /\ chan = <<>>
    /\ state = <<>>
    /\ bytes = <<>>
    /\ RunIdle
    /\ DevIdle

\* HashMap::insert: the key is added or its value replaced
MapInsert(m, k, v) == [x \in DOMAIN m \cup {k} |-> IF x = k THEN v ELSE m[x]]

\* JoystickMux::configure_axis
configure_axis(output_axis_id, combine_fn) ==
    /\ axes' = MapInsert(axes, output_axis_id, combine_fn)
    /\ UNCHANGED <<axis_states, output_s, chan, state, bytes, runvars, devvars>>

\* a send_output that sends its snapshot twice
send_output_twice ==
    IF output_s
    THEN /\ Len(chan) < MaxChan
         /\ \E order \in IterOrders(DOMAIN axes) :
                LET sent == output_from(order) IN
                /\ sent.tag = "Some"
                /\ chan' = chan \o <<sent.val, sent.val>>
    ELSE UNCHANGED chan

\* JoystickMux::send_output; a send waits while the channel is full
send_output ==
    IF output_s
    THEN /\ Len(chan) < MaxChan
         /\ \E order \in IterOrders(DOMAIN axes) :
                LET sent == output_from(order) IN
                /\ sent.tag = "Some"
                /\ chan' = Append(chan, sent.val)
    ELSE UNCHANGED chan

\* an update that keys the raw value by the event code alone
update_by_code(joystick, code, value) ==
    IF code = SynCode
    THEN /\ send_output
         /\ UNCHANGED <<axis_states, axes, output_s, state, bytes, devvars>>
    ELSE /\ axis_states' = MapInsert(axis_states, InputAxisId(0, code), value)
         /\ UNCHANGED <<axes, output_s, chan, state, bytes, devvars>>

\* JoystickMux::update
update(joystick, code, value) ==
    IF code = SynCode
    THEN /\ send_output
         /\ UNCHANGED <<axis_states, axes, output_s, state, bytes, devvars>>
    ELSE /\ axis_states' =
                MapInsert(axis_states, InputAxisId(joystick, code), value)
         /\ UNCHANGED <<axes, output_s, chan, state, bytes, devvars>>

Configure ==
    \E output_axis_id \in OutputAxisIds, combine_fn \in AxisCombineFn :
        configure_axis(output_axis_id, combine_fn)

Update ==
    \E joystick \in JoystickIds, code \in {"ABS_X", SynCode},
       value \in RawValues :
        update(joystick, code, value) /\ UNCHANGED runvars

Next == Configure \/ Update

Spec == Init /\ [][Next]_vars

(***************************************************************************)
(* Properties of the combine functions                                     *)
(***************************************************************************)
\* the configured output axes whose combine function is of the given kind
AxesOfKind(kind) == {o \in DOMAIN axes : axes[o].kind = kind}

Observed(id) == id \in DOMAIN axis_states

\* a * b for 0 <= a, 0 <= b < 2^21 as the pair <<h, l>> with
\* a * b = h * 1024 + l and l < 1024, formed without overflow
WideMul(a, b) ==
    LET l0 == (a % 1024) * b IN
    <<(a \div 1024) * b + l0 \div 1024, l0 % 1024>>

WideLeq(p, q) == p[1] < q[1] \/ (p[1] = q[1] /\ p[2] <= q[2])

\* C1: every observed input of a LargestMagnitude axis whose bounds differ
\* contributes -32767 + ((v - lower_bound) * 65534) / (upper_bound -
\* lower_bound), the quotient q rounded toward zero: |q| is the greatest
\* integer with |q| * |upper - lower| <= |v - lower| * 65534, and q is not
\* of the sign opposite to the exact quotient's.  With bounds [-5, 5], raw
\* 1 gives 6553 and raw -1 gives -6554; an axis with this single input has
\* the candidate as its value.
C1_RescaleTruncates ==
    \A o \in AxesOfKind("LargestMagnitude") :
        \A i \in 1..Len(axes[o].inputs) :
            LET input == axes[o].inputs[i]
                lo == input.lower_bound
                hi == input.upper_bound
            IN (Observed(input.id) /\ lo # hi) =>
                LET v == axis_states[input.id]
                    c == Candidate(input)
                    q == c.val + 32767
                    num == WideMul(Abs(v - lo), 65534)
                IN /\ c.tag = "Some"
                   /\ WideLeq(WideMul(Abs(q), Abs(hi - lo)), num)
                   /\ ~WideLeq(WideMul(Abs(q) + 1, Abs(hi - lo)), num)
                   /\ (q > 0 => (v - lo > 0) = (hi - lo > 0))
                   /\ (q < 0 => (v - lo > 0) # (hi - lo > 0))
                   /\ ((lo = -5 /\ hi = 5 /\ v = 1) => c.val = 6553)
                   /\ ((lo = -5 /\ hi = 5 /\ v = -1) => c.val = -6554)
                   /\ (Len(axes[o].inputs) = 1 => output_axis(o) = Some(c.val))

\* a LargestMagnitude axis over [-5, 5] and [0, 255], both inputs at raw -1:
\* the candidates are -6554 and -33023 (flooring would give -33024)
C1_Witness ==
    \E o \in AxesOfKind("LargestMagnitude") :
        /\ axes[o].inputs = <<InputAxis(InputAxisId(0, "ABS_X"), -5, 5),
                              InputAxis(InputAxisId(1, "ABS_X"), 0, 255)>>
        /\ Observed(InputAxisId(0, "ABS_X"))
        /\ Observed(InputAxisId(1, "ABS_X"))
        /\ axis_states[InputAxisId(0, "ABS_X")] = -1
        /\ axis_states[InputAxisId(1, "ABS_X")] = -1
        /\ Candidate(axes[o].inputs[1]) = Some(-6554)
        /\ Candidate(axes[o].inputs[2]) = Some(-33023)

\* C2: the value of a LargestMagnitude axis is the candidate of greatest
\* absolute value, and among candidates of the same greatest absolute value
\* it is that of the input declared last.
C2_LastLargestWins ==
    \A o \in AxesOfKind("LargestMagnitude") :
        LET inputs == axes[o].inputs
            n == Len(inputs)
        IN (n > 0 /\ \A i \in 1..n : Candidate(inputs[i]).tag = "Some") =>
            \E k \in 1..n :
                /\ output_axis(o) = Some(Candidate(inputs[k]).val)
                /\ \A i \in 1..n :
                       Abs(Candidate(inputs[i]).val)
                           <= Abs(Candidate(inputs[k]).val)
                /\ \A i \in (k + 1)..n :
                       Abs(Candidate(inputs[i]).val)
                           < Abs(Candidate(inputs[k]).val)

\* two inputs on different devices whose candidates are 32767 and -32767:
\* the value is that of the second
C2_Witness ==
    \E o \in AxesOfKind("LargestMagnitude") :
        /\ Len(axes[o].inputs) = 2
        /\ axes[o].inputs[1].id # axes[o].inputs[2].id
        /\ Candidate(axes[o].inputs[1]) = Some(32767)
        /\ Candidate(axes[o].inputs[2]) = Some(-32767)
        /\ output_axis(o) = Some(-32767)

Clamp(v, lo, hi) == IF v < lo THEN lo ELSE IF v > hi THEN hi ELSE v

\* C3: with bounds (-32767, 32767) a LargestMagnitude axis with a single
\* observed input evaluates to the raw value clamped to [-32767, 32767],
\* for raw values inside and outside that range.
C3_IdentityClamped ==
    \A o \in AxesOfKind("LargestMagnitude") :
        LET inputs == axes[o].inputs IN
        (/\ Len(inputs) = 1
         /\ inputs[1].lower_bound = -32767
         /\ inputs[1].upper_bound = 32767
         /\ Observed(inputs[1].id)) =>
            output_value(o)
                = Some(Clamp(axis_states[inputs[1].id], -32767, 32767))

\* C4: no evaluation and no snapshot fails: whatever the configured combine
\* functions (an input of equal bounds included) and the updates, every
\* output axis evaluates to a value and the snapshot is produced.
C4_NoOperationFails ==
    /\ \A o \in OutputAxisIds : output_axis(o).tag # "Panic"
    /\ output.tag = "Some"

\* the input axes a combine function refers to
ReferencedIds(combine_fn) ==
    IF combine_fn.kind = "Hat"
    THEN {combine_fn.x, combine_fn.y}
    ELSE {combine_fn.inputs[i].id : i \in 1..Len(combine_fn.inputs)}

\* 0 for a numeric axis, not pressed for a button, null for a hat
NeutralValue(combine_fn) == IF combine_fn.kind = "Hat" THEN -1 ELSE 0

\* C5, as claimed: an output axis that is unconfigured, or one of whose
\* referenced inputs was never updated, evaluates to the neutral value
\* whatever the other inputs hold (stated for the evaluations that return).
C5_NeutralIfAnyUnobserved ==
    \A o \in OutputAxisIds :
        IF o \in DOMAIN axes
        THEN (\E id \in ReferencedIds(axes[o]) : ~Observed(id)) =>
                 \/ output_value(o).tag = "Panic"
                 \/ output_value(o) = Some(NeutralValue(axes[o]))
        ELSE output_value(o) = Some(0)

\* C5, amended: an unconfigured output axis evaluates to 0, and a configured
\* one none of whose referenced inputs was ever updated evaluates to the
\* neutral value of its combine function.
C5_NeutralIfNoneObserved ==
    \A o \in OutputAxisIds :
        IF o \in DOMAIN axes
        THEN (\A id \in ReferencedIds(axes[o]) : ~Observed(id)) =>
                 output_value(o) = Some(NeutralValue(axes[o]))
        ELSE output_value(o) = Some(0)

\* an axis that refers to inputs none of which was observed, while another
\* input was, evaluates to its neutral value
C5_Witness ==
    \E o \in DOMAIN axes :
        /\ ReferencedIds(axes[o]) # {}
        /\ \A id \in ReferencedIds(axes[o]) : ~Observed(id)
        /\ \E id \in InputAxisIds : Observed(id) /\ axis_states[id] # 0
        /\ output_value(o) = Some(NeutralValue(axes[o]))

\* the entry of an output axis in the snapshot
SnapshotValue(o) ==
    LET k == CHOOSE k \in 1..Len(output.val) : output.val[k][1] = o
    IN output.val[k][2]

\* C6: an input that was never updated contributes the candidate 0, not the
\* rescaling of raw 0, and a LargestMagnitude axis whose input list is
\* empty or holds only such inputs has the value 0 in the snapshot.
C6_UnobservedIsZero ==
    \A o \in AxesOfKind("LargestMagnitude") :
        LET inputs == axes[o].inputs IN
        /\ \A i \in 1..Len(inputs) :
               ~Observed(inputs[i].id) => Candidate(inputs[i]) = Some(0)
        /\ (\A i \in 1..Len(inputs) : ~Observed(inputs[i].id)) =>
               /\ output.tag = "Some"
               /\ \E k \in 1..Len(output.val) : output.val[k][1] = o
               /\ SnapshotValue(o) = 0

\* the axis over the unobserved range [0, 255], whose raw 0 would rescale
\* to -32767, is 0 in the snapshot
C6_Witness ==
    \E o \in AxesOfKind("LargestMagnitude") :
        /\ axes[o].inputs = <<InputAxis(InputAxisId(1, "ABS_X"), 0, 255)>>
        /\ ~Observed(InputAxisId(1, "ABS_X"))
        /\ output = Some(<<<<o, 0>>>>)

\* C7: for an inverted range (lower_bound > upper_bound) raw = lower_bound
\* gives -32767 and raw = upper_bound gives 32767, and with bounds (5, -5)
\* raw 0 gives 0.
C7_InvertedRange ==
    \A o \in AxesOfKind("LargestMagnitude") :
        LET inputs == axes[o].inputs IN
        (/\ Len(inputs) = 1
         /\ inputs[1].lower_bound > inputs[1].upper_bound
         /\ Observed(inputs[1].id)) =>
            LET v == axis_states[inputs[1].id] IN
            /\ v = inputs[1].lower_bound => output_value(o) = Some(-32767)
            /\ v = inputs[1].upper_bound => output_value(o) = Some(32767)
            /\ (inputs[1].lower_bound = 5 /\ inputs[1].upper_bound = -5 /\ v = 0)
                   => output_value(o) = Some(0)

\* the axis over (5, -5) at raw -5, its upper bound
C7_Witness ==
    \E o \in AxesOfKind("LargestMagnitude") :
        /\ axes[o].inputs = <<InputAxis(InputAxisId(0, "ABS_X"), 5, -5)>>
        /\ Observed(InputAxisId(0, "ABS_X"))
        /\ axis_states[InputAxisId(0, "ABS_X")] = -5
        /\ output_value(o) = Some(32767)

\* C8: a Button axis follows its mode: an input counts as pressed iff its
\* last raw value is > 0 in mode Positive, < 0 in mode Negative and # 0 in
\* mode NonZero; a button with one observed input is 1 exactly when that
\* input is pressed, so a Positive button at a negative value and a
\* Negative button at a positive value are 0.
C8_ButtonModes ==
    \A o \in AxesOfKind("Button") :
        LET inputs == axes[o].inputs
            mode == axes[o].mode
        IN (Len(inputs) = 1 /\ Observed(inputs[1].id)) =>
            LET v == axis_states[inputs[1].id] IN
            /\ mode = "Positive" => output_axis(o) = Some(IF v > 0 THEN 1 ELSE 0)
            /\ mode = "Negative" => output_axis(o) = Some(IF v < 0 THEN 1 ELSE 0)
            /\ mode = "NonZero" => output_axis(o) = Some(IF v # 0 THEN 1 ELSE 0)

\* C9: a Button axis is the logical OR over its input list: it is 1 if at
\* least one of its inputs, taken alone under the same mode, gives 1, and 0
\* otherwise; an input that was never updated is not pressed, so a button
\* without observed inputs, or without inputs, is 0; in mode NonZero the
\* pressed inputs are the observed ones whose raw value is not 0; the value
\* is 0 or 1.
C9_ButtonIsOr ==
    \A o \in AxesOfKind("Button") :
        LET inputs == axes[o].inputs
            n == Len(inputs)
        IN /\ output_axis(o) \in {Some(0), Some(1)}
           /\ (output_axis(o) = Some(1))
                  <=> \E i \in 1..n : ButtonArm(<<inputs[i]>>) = Some(1)
           /\ \A i \in 1..n :
                  ~Observed(inputs[i].id) => ButtonArm(<<inputs[i]>>) = Some(0)
           /\ (\A i \in 1..n : ~Observed(inputs[i].id))
                  => output_value(o) = Some(0)
           /\ axes[o].mode = "NonZero" =>
                  ((output_axis(o) = Some(1))
                       <=> \E i \in 1..n : /\ Observed(inputs[i].id)
                                           /\ axis_states[inputs[i].id] # 0)

\* a NonZero button over two devices, the first input never updated and the
\* second one at a raw value other than 0, is 1
C9_Witness ==
    \E o \in AxesOfKind("Button") :
        /\ axes[o].mode = "NonZero"
        /\ Len(axes[o].inputs) = 2
        /\ ~Observed(axes[o].inputs[1].id)
        /\ Observed(axes[o].inputs[2].id)
        /\ axis_states[axes[o].inputs[2].id] # 0
        /\ output_axis(o) = Some(1)

\* the hat table of the specification, on the signs of x and y
HatTable(sx, sy) ==
    CASE sx = 0 /\ sy = 0 -> -1
      [] sx = 0 /\ sy = -1 -> 0
      [] sx = 1 /\ sy = -1 -> 1
      [] sx = 1 /\ sy = 0 -> 2
      [] sx = 1 /\ sy = 1 -> 3
      [] sx = 0 /\ sy = 1 -> 4
      [] sx = -1 /\ sy = 1 -> 5
      [] sx = -1 /\ sy = 0 -> 6
      [] sx = -1 /\ sy = -1 -> 7

\* the sign of the last raw value of an input, 0 when it has none
SignOf(id) ==
    IF Observed(id)
    THEN (IF axis_states[id] > 0 THEN 1
          ELSE IF axis_states[id] < 0 THEN -1 ELSE 0)
    ELSE 0

\* C10: a Hat axis is the table entry of the signs of the last raw values
\* of its x and y inputs, an unobserved input counting as 0; every pair of
\* raw values has an entry, so the unreachable branch is never taken.
C10_HatTable ==
    \A o \in AxesOfKind("Hat") :
        /\ output_axis(o).tag = "Some"
        /\ output_axis(o).val = HatTable(SignOf(axes[o].x), SignOf(axes[o].y))

\* a hat over two devices at x = -5 and y = 40000 points to 5
C10_Witness ==
    \E o \in AxesOfKind("Hat") :
        /\ axes[o].x # axes[o].y
        /\ Observed(axes[o].x) /\ axis_states[axes[o].x] = -5
        /\ Observed(axes[o].y) /\ axis_states[axes[o].y] = 40000
        /\ output_axis(o) = Some(5)

(***************************************************************************)
(* The multiplexer with an output channel: several output axes, a small    *)
(* catalogue of combine functions, and a consumer that receives            *)
(***************************************************************************)
OutIds == {"BTN_TRIGGER", "ABS_X"}

OutFns ==
    {LargestMagnitude(<<InputAxis(InputAxisId(0, "ABS_X"), -5, 5)>>),
     Button("NonZero", <<InputAxis(InputAxisId(1, "ABS_X"), 0, 255)>>)}

OutValues == {0, 5}

\* JoystickMux::new(output_s), with or without a sender
InitOut ==
    /\ axis_states = <<>>
    /\ axes = <<>>
    /\ output_s \in BOOLEAN
    /\ chan = <<>>
    /\ state = <<>>
    /\ bytes = <<>>
    /\ RunIdle
    /\ DevIdle

ConfigureOut ==
    \E output_axis_id \in OutIds, combine_fn \in OutFns :
        configure_axis(output_axis_id, combine_fn)

UpdateOut ==
    \E joystick \in JoystickIds, code \in {"ABS_X", SynCode},
       value \in OutValues :
        update(joystick, code, value) /\ UNCHANGED runvars

\* the holder of the receiving end takes the oldest snapshot
Recv ==
    /\ chan # <<>>
    /\ chan' = Tail(chan)
    /\ UNCHANGED <<axis_states, axes, output_s, state, bytes, runvars, devvars>>

NextOut == ConfigureOut \/ UpdateOut \/ Recv

SpecOut == InitOut /\ [][NextOut]_vars

\* a step that is an update carrying an EV_SYN event
SynStep ==
    \E joystick \in JoystickIds, value \in OutValues :
        update(joystick, SynCode, value)

\* a step that is an update carrying this device's ABS_X event
AxisStep(joystick, value) == update(joystick, "ABS_X", value)

\* what snapshot() returns in the current state
snapshot == output.val

\* C11: an update carrying EV_SYN leaves the raw values and the table of
\* combine functions as they were; with a registered output channel it sends
\* exactly one OutputState, equal to snapshot(); without one nothing is ever
\* sent
C11_SynSendsOneSnapshot ==
    [][/\ ~output_s => chan' = <<>>
       /\ SynStep =>
            /\ axis_states' = axis_states
            /\ axes' = axes
            /\ IF output_s
               THEN /\ Len(chan') = Len(chan) + 1
                    /\ SubSeq(chan', 1, Len(chan)) = chan
                    /\ chan'[Len(chan')] = snapshot
               ELSE chan' = chan]_vars

C11_Witness ==
    /\ output_s
    /\ DOMAIN axes = OutIds
    /\ DOMAIN axis_states = InputAxisIds
    /\ chan = <<snapshot>>

\* C12: an update carrying any other event sets the raw value of that
\* (device, code) key and nothing else: every other key, the same code on
\* another device included, keeps its value, the table of combine functions
\* is unchanged, nothing is sent, and no step ever removes a key
C12_UpdateTouchesOneKey ==
    [][/\ DOMAIN axis_states \subseteq DOMAIN axis_states'
       /\ \A joystick \in JoystickIds, value \in OutValues :
            AxisStep(joystick, value) =>
                LET id == InputAxisId(joystick, "ABS_X") IN
                /\ DOMAIN axis_states' = DOMAIN axis_states \cup {id}
                /\ axis_states'[id] = value
                /\ \A other \in DOMAIN axis_states \ {id} :
                       axis_states'[other] = axis_states[other]
                /\ axes' = axes
                /\ chan' = chan]_vars

C12_Witness ==
    /\ DOMAIN axis_states = InputAxisIds
    /\ axis_states[InputAxisId(0, "ABS_X")] = 5
    /\ axis_states[InputAxisId(1, "ABS_X")] = 0
    /\ axes # <<>>

\* the place of an output axis id in the order of (event type, code number):
\* EV_KEY codes come before EV_ABS codes
C13_Rank(o) ==
    CASE o = "BTN_TRIGGER" -> 1
      [] o = "ABS_X" -> 2

C13_WellFormed(entries) ==
    /\ Len(entries) = Cardinality(DOMAIN axes)
    /\ \A o \in DOMAIN axes :
           Cardinality({k \in 1..Len(entries) : entries[k][1] = o}) = 1
    /\ \A k \in 1..Len(entries) :
           entries[k][2] = output_value(entries[k][1]).val
    /\ \A k \in 1..(Len(entries) - 1) :
           C13_Rank(entries[k][1]) < C13_Rank(entries[k + 1][1])

\* C13: after any sequence of configure and update calls, snapshot() has
\* exactly one (OutputAxisId, value) entry for each configured output axis and
\* the entries are in strictly increasing OutputAxisId order, in whatever
\* order the table is iterated
C13_SnapshotSorted ==
    \A order \in IterOrders(DOMAIN axes) :
        /\ output_from(order).tag = "Some"
        /\ C13_WellFormed(output_from(order).val)

C13_Witness ==
    /\ DOMAIN axes = OutIds
    /\ axes["BTN_TRIGGER"].kind = "LargestMagnitude"
    /\ axes["ABS_X"].kind = "Button"
    /\ DOMAIN axis_states = InputAxisIds
    /\ snapshot[1][1] = "BTN_TRIGGER"
    /\ snapshot[2][1] = "ABS_X"

\* C14: two snapshots with no update or configure between them are equal,
\* whatever order each of them iterates the table in, and taking a snapshot
\* leaves the multiplexer's state as it was: a snapshot taken from the state
\* left by a send equals the one sent
C14_SnapshotRepeatable ==
    [][/\ \A order \in IterOrders(DOMAIN axes) : output_from(order) = output
       /\ Len(chan') > Len(chan) =>
            /\ axis_states' = axis_states
            /\ axes' = axes
            /\ \A again \in IterOrders(DOMAIN axes') :
                   chan'[Len(chan')] = output_from(again).val]_vars

C14_Witness ==
    /\ Cardinality(DOMAIN axes) >= 2
    /\ axis_states # <<>>
    /\ chan # <<>>
    /\ chan[Len(chan)] = snapshot
    /\ \E k \in 1..Len(snapshot) : snapshot[k][2] # 0

(***************************************************************************)
(* The report encoder: CompositeJoystickReport and make_report             *)
(***************************************************************************)
\* the i16 fields of CompositeJoystickReport, in declaration order, named by
\* the event code that make_report stores in them
FieldCodes ==
    <<"ABS_X", "ABS_Y", "ABS_Z", "ABS_RX", "ABS_RY", "ABS_RZ",
      "ABS_THROTTLE", "ABS_RUDDER">>

\* the EV_KEY codes of make_report's match; the code at place i + 1 sets
\* buttons[i]
ButtonCodes ==
    <<
      "BTN_TRIGGER", "BTN_THUMB", "BTN_THUMB2", "BTN_TOP", "BTN_TOP2",
      "BTN_PINKIE", "BTN_BASE", "BTN_BASE2", "BTN_BASE3", "BTN_BASE4",
      "BTN_BASE5", "BTN_BASE6", "BTN_TRIGGER_HAPPY1",
      "BTN_TRIGGER_HAPPY2", "BTN_TRIGGER_HAPPY3", "BTN_TRIGGER_HAPPY4",
      "BTN_TRIGGER_HAPPY5", "BTN_TRIGGER_HAPPY6", "BTN_TRIGGER_HAPPY7",
      "BTN_TRIGGER_HAPPY8", "BTN_TRIGGER_HAPPY9", "BTN_TRIGGER_HAPPY10",
      "BTN_TRIGGER_HAPPY11", "BTN_TRIGGER_HAPPY12", "BTN_TRIGGER_HAPPY13",
      "BTN_TRIGGER_HAPPY14", "BTN_TRIGGER_HAPPY15", "BTN_TRIGGER_HAPPY16",
      "BTN_TRIGGER_HAPPY17", "BTN_TRIGGER_HAPPY18", "BTN_TRIGGER_HAPPY19",
      "BTN_TRIGGER_HAPPY20", "BTN_TRIGGER_HAPPY21", "BTN_TRIGGER_HAPPY22",
      "BTN_TRIGGER_HAPPY23", "BTN_TRIGGER_HAPPY24", "BTN_TRIGGER_HAPPY25",
      "BTN_TRIGGER_HAPPY26", "BTN_TRIGGER_HAPPY27", "BTN_TRIGGER_HAPPY28",
      "BTN_TRIGGER_HAPPY29", "BTN_TRIGGER_HAPPY30", "BTN_TRIGGER_HAPPY31",
      "BTN_TRIGGER_HAPPY32"
    >>

\* codes with no arm of their own in the match
OtherCodes == {"ABS_MISC", "BTN_0"}

NumFields == 8

NumButtons == 44

ReportLen == 22

\* the place of a code in a list of codes, 0 when it is not there
IndexOf(codes, code) ==
    IF \E i \in 1..Len(codes) : codes[i] = code
    THEN CHOOSE i \in 1..Len(codes) : codes[i] = code
    ELSE 0

\* a cast that keeps the low 15 bits and drops the sign
AsI16Unsigned(value) == value % 32768

\* value as i16: the low 16 bits, read as two's complement
AsI16(value) == ((value + 32768) % 65536) - 32768

\* the initial CompositeJoystickReport, with hatx and haty
InitialResult ==
    [fields |-> [k \in 1..NumFields |-> 0],
     buttons |-> [i \in 0..(NumButtons - 1) |-> FALSE],
     hatx |-> 0,
     haty |-> 0]

\* a match whose last arm starts the result over
MatchArmOtherResets(result, code, value) ==
    LET f == IndexOf(FieldCodes, code)
        b == IndexOf(ButtonCodes, code)
    IN IF f # 0 THEN [result EXCEPT !.fields[f] = AsI16(value)]
       ELSE IF code = "ABS_HAT0X" THEN [result EXCEPT !.hatx = Signum(value)]
       ELSE IF code = "ABS_HAT0Y" THEN [result EXCEPT !.haty = Signum(value)]
       ELSE IF b # 0 THEN [result EXCEPT !.buttons[b - 1] = value # 0]
       ELSE InitialResult

\* a button arm that can set its button but never clear it
MatchArmButtonsLatch(result, code, value) ==
    LET f == IndexOf(FieldCodes, code)
        b == IndexOf(ButtonCodes, code)
    IN IF f # 0 THEN [result EXCEPT !.fields[f] = AsI16(value)]
       ELSE IF code = "ABS_HAT0X" THEN [result EXCEPT !.hatx = Signum(value)]
       ELSE IF code = "ABS_HAT0Y" THEN [result EXCEPT !.haty = Signum(value)]
       ELSE IF b # 0
            THEN [result EXCEPT !.buttons[b - 1] = @ \/ value # 0]
       ELSE result

\* one pass of the loop body: the match on the entry's code
MatchArm(result, code, value) ==
    LET f == IndexOf(FieldCodes, code)
        b == IndexOf(ButtonCodes, code)
    IN IF f # 0 THEN [result EXCEPT !.fields[f] = AsI16(value)]
       ELSE IF code = "ABS_HAT0X" THEN [result EXCEPT !.hatx = Signum(value)]
       ELSE IF code = "ABS_HAT0Y" THEN [result EXCEPT !.haty = Signum(value)]
       ELSE IF b # 0 THEN [result EXCEPT !.buttons[b - 1] = value # 0]
       ELSE result

\* the loop over the first k entries
RECURSIVE LoopOver(_, _)
LoopOver(entries, k) ==
    IF k = 0 THEN InitialResult
    ELSE MatchArm(LoopOver(entries, k - 1), entries[k][1], entries[k][2])

\* hatxy_to_angle; the arguments are signs, so no other pair arrives
hatxy_to_angle(hatx, haty) ==
    CASE hatx = 0 /\ haty = 0 -> 15
      [] hatx = 0 /\ haty = -1 -> 0
      [] hatx = 1 /\ haty = -1 -> 1
      [] hatx = 1 /\ haty = 0 -> 2
      [] hatx = 1 /\ haty = 1 -> 3
      [] hatx = 0 /\ haty = 1 -> 4
      [] hatx = -1 /\ haty = 1 -> 5
      [] hatx = -1 /\ haty = 0 -> 6
      [] hatx = -1 /\ haty = -1 -> 7

\* bit i of a byte, bit 0 the least significant
Bit(b, i) == (b \div (2 ^ i)) % 2

\* u8::reverse_bits
ReverseBits(b) ==
    Bit(b, 0) * 128 + Bit(b, 1) * 64 + Bit(b, 2) * 32 + Bit(b, 3) * 16
    + Bit(b, 4) * 8 + Bit(b, 5) * 4 + Bit(b, 6) * 2 + Bit(b, 7)

\* a hat value stored as it is
flip_hat_bits_none(hat) == hat

\* flip_hat_bits
flip_hat_bits(hat) == ReverseBits(hat) \div 16

\* the two bytes of an i16 field, high byte first
FieldByteMsb(value, n) ==
    LET u16 == IF value < 0 THEN value + 65536 ELSE value
    IN IF n = 0 THEN u16 \div 256 ELSE u16 % 256

\* byte n (0 or 1) of an i16 field packed with endian = "lsb"
FieldByte(value, n) ==
    LET u16 == IF value < 0 THEN value + 65536 ELSE value
    IN IF n = 0 THEN u16 % 256 ELSE u16 \div 256

\* the buttons laid out from the last bit backwards
PackedBitButtonsReversed(hat, buttons, n) ==
    IF n < 132 THEN Bit(hat, 131 - n)
    ELSE IF buttons[175 - n] THEN 1 ELSE 0

\* bit n (128..175) of the packed structure: the 4 bits of hat, most
\* significant first, then one bit for each button
PackedBit(hat, buttons, n) ==
    IF n < 132 THEN Bit(hat, 131 - n)
    ELSE IF buttons[n - 132] THEN 1 ELSE 0

\* PackedStruct::pack with bit_numbering = "msb0": bit n is in byte n div 8
\* and is worth 2^(7 - n mod 8) there.  Byte k is at place k + 1
pack(fields, hat, buttons) ==
    [place \in 1..ReportLen |->
        LET k == place - 1 IN
        IF k < 2 * NumFields
        THEN FieldByte(fields[(k \div 2) + 1], k % 2)
        ELSE PackedBit(hat, buttons, 8 * k) * 128
             + PackedBit(hat, buttons, 8 * k + 1) * 64
             + PackedBit(hat, buttons, 8 * k + 2) * 32
             + PackedBit(hat, buttons, 8 * k + 3) * 16
             + PackedBit(hat, buttons, 8 * k + 4) * 8
             + PackedBit(hat, buttons, 8 * k + 5) * 4
             + PackedBit(hat, buttons, 8 * k + 6) * 2
             + PackedBit(hat, buttons, 8 * k + 7)]

\* the reversal left out for byte 16
ReverseTailFrom17(packed) ==
    [place \in 1..ReportLen |->
        IF place - 1 >= 17 THEN ReverseBits(packed[place]) ELSE packed[place]]

\* bytes[16..21] = bytes[16..21].reverse_bits()
ReverseTail(packed) ==
    [place \in 1..ReportLen |->
        IF place - 1 >= 16 THEN ReverseBits(packed[place]) ELSE packed[place]]

make_report(entries) ==
    LET result == LoopOver(entries, Len(entries))
        hat == flip_hat_bits(hatxy_to_angle(result.hatx, result.haty))
    IN ReverseTail(pack(result.fields, hat, result.buttons))

(***************************************************************************)
(* make_report applied to a bounded set of entry lists                     *)
(***************************************************************************)
ReportValues == {-40000, -32768, -1001, -1, 0, 1, 32767, 40000}

Range(codes) == {codes[i] : i \in 1..Len(codes)}

AllCodes ==
    Range(FieldCodes) \cup {"ABS_HAT0X", "ABS_HAT0Y"} \cup Range(ButtonCodes)
    \cup OtherCodes

\* the entries the longer lists are made of
ListEntries ==
    ({"ABS_X", "ABS_HAT0X", "ABS_HAT0Y", "BTN_TRIGGER"} \X {-1001, 0, 1})
    \cup {<<"ABS_MISC", 1>>}

RECURSIVE ListsUpTo(_)
ListsUpTo(n) ==
    IF n = 0 THEN {<<>>}
    ELSE LET shorter == ListsUpTo(n - 1)
         IN shorter \cup {Append(l, e) : l \in shorter, e \in ListEntries}

\* every single entry, and every list of up to MaxEntries list entries
ReportInputs ==
    {<<<<code, value>>>> : code \in AllCodes, value \in ReportValues}
    \cup ListsUpTo(MaxEntries)

InitReport ==
    /\ axis_states = <<>>
    /\ axes = <<>>
    /\ output_s = FALSE
    /\ chan = <<>>
    /\ state \in ReportInputs
    /\ bytes = <<>>
    /\ RunIdle
    /\ DevIdle

MakeReport ==
    /\ bytes = <<>>
    /\ bytes' = make_report(state)
    /\ UNCHANGED <<axis_states, axes, output_s, chan, state, runvars, devvars>>

NextReport == MakeReport

SpecReport == InitReport /\ [][NextReport]_vars

(***************************************************************************)
(* Properties of the report encoder                                        *)
(***************************************************************************)
\* make_report has run on the entries in state
Encoded == bytes # <<>>

\* byte k of the report, counted from 0
ByteAt(k) == bytes[k + 1]

HasEntry(code) == \E i \in 1..Len(state) : state[i][1] = code

\* the value of the last entry for a code, 0 when there is none
LastValue(code) ==
    IF HasEntry(code)
    THEN LET last == CHOOSE i \in 1..Len(state) :
                        /\ state[i][1] = code
                        /\ \A j \in (i + 1)..Len(state) : state[j][1] # code
         IN state[last][2]
    ELSE 0

\* the report of no entries: hat 15 and nothing else
EmptyReportBytes == [place \in 1..ReportLen |-> IF place = 17 THEN 15 ELSE 0]

\* button i is left pressed by the entries
Pressed(i) == LastValue(ButtonCodes[i + 1]) # 0

\* the hat value the entries call for
HatOfEntries ==
    hatxy_to_angle(Signum(LastValue("ABS_HAT0X")),
                   Signum(LastValue("ABS_HAT0Y")))

\* the first four buttons as a 4-bit number, button 0 lowest
FirstButtonsNibble ==
    (IF Pressed(0) THEN 1 ELSE 0) + (IF Pressed(1) THEN 2 ELSE 0)
    + (IF Pressed(2) THEN 4 ELSE 0) + (IF Pressed(3) THEN 8 ELSE 0)

\* C15 as stated: the hat value is the high nibble of byte 16 and the low
\* nibble carries button bits; the report of no entries has 15 in the high
\* nibble of byte 16
C15_HatInHighNibble ==
    Encoded =>
        /\ ByteAt(16) \div 16 = HatOfEntries
        /\ ByteAt(16) % 16 = FirstButtonsNibble
        /\ state = <<>> => ByteAt(16) \div 16 = 15

\* C15: the hat value (0-7, or 15 for centred) is the low nibble of byte 16
\* and the high nibble carries the bits of buttons 0 to 3; the report of no
\* entries has byte 16 = 0x0f
C15_HatInLowNibble ==
    Encoded =>
        /\ ByteAt(16) % 16 = HatOfEntries
        /\ ByteAt(16) % 16 \in (0..7) \cup {15}
        /\ ByteAt(16) \div 16 = FirstButtonsNibble
        /\ state = <<>> => ByteAt(16) = 15

\* hat pushed right with the trigger held: byte 16 is 0x12
C15_Witness ==
    /\ Encoded
    /\ state = <<<<"ABS_HAT0X", 1>>, <<"BTN_TRIGGER", 1>>>>
    /\ ByteAt(16) = 18

\* C16: a single entry for the button of index i (0..43) with a non-zero
\* value gives the report of no entries with exactly one more bit set, the
\* bit of weight 2^((i + 4) mod 8) in byte 16 + (i + 4) div 8: button 0 gives
\* byte 16 = 0x1f, button 4 byte 17 = 0x01, button 43 byte 21 = 0x80
C16_ButtonBit ==
    /\ Len(ButtonCodes) = NumButtons
    /\ (Encoded /\ Len(state) = 1 /\ state[1][2] # 0
        /\ IndexOf(ButtonCodes, state[1][1]) # 0) =>
           LET i == IndexOf(ButtonCodes, state[1][1]) - 1
               k == 16 + ((i + 4) \div 8)
           IN /\ \A j \in 0..(ReportLen - 1) :
                     ByteAt(j) = EmptyReportBytes[j + 1]
                                 + (IF j = k THEN 2 ^ ((i + 4) % 8) ELSE 0)
              /\ state[1][1] = "BTN_TRIGGER" => ByteAt(16) = 31
              /\ state[1][1] = "BTN_TOP2" => ByteAt(17) = 1
              /\ state[1][1] = "BTN_TRIGGER_HAPPY32" => ByteAt(21) = 128

\* the last button, held with a negative value
C16_Witness ==
    /\ Encoded
    /\ state = <<<<"BTN_TRIGGER_HAPPY32", -1001>>>>
    /\ ByteAt(21) = 128
    /\ ByteAt(16) = 15

\* the 16-bit two's complement pattern of a value in [-32768, 32767]
TwosComplement(v) == IF v < 0 THEN 65536 + v ELSE v

InI16(v) == -32768 <= v /\ v <= 32767

\* C17: for the k-th continuous field (k from 0, in the order ABS_X, ABS_Y,
\* ABS_Z, ABS_RX, ABS_RY, ABS_RZ, ABS_THROTTLE, ABS_RUDDER) and a value in
\* [-32768, 32767], bytes 2k and 2k + 1 are the low then the high byte of
\* its two's complement (-1001 on x gives 0x17 0xfc); a field with no entry
\* is 0x00 0x00; setting one field changes no other byte
C17_FieldBytes ==
    Encoded =>
        /\ \A k \in 0..(NumFields - 1) :
               LET v == LastValue(FieldCodes[k + 1]) IN
               InI16(v) =>
                   /\ ByteAt(2 * k) = TwosComplement(v) % 256
                   /\ ByteAt(2 * k + 1) = TwosComplement(v) \div 256
        /\ state = <<<<"ABS_X", -1001>>>> => ByteAt(0) = 23 /\ ByteAt(1) = 252
        /\ (Len(state) = 1 /\ IndexOf(FieldCodes, state[1][1]) # 0) =>
               LET k == IndexOf(FieldCodes, state[1][1]) - 1 IN
               \A j \in (0..(ReportLen - 1)) \ {2 * k, 2 * k + 1} :
                   ByteAt(j) = EmptyReportBytes[j + 1]

\* the last field at the lowest value: bytes 14 and 15 are 0x00 0x80
C17_Witness ==
    /\ Encoded
    /\ state = <<<<"ABS_RUDDER", -32768>>>>
    /\ ByteAt(14) = 0
    /\ ByteAt(15) = 128

\* the value a continuous field of the report decodes to
DecodedField(k) ==
    LET u16 == ByteAt(2 * k) + 256 * ByteAt(2 * k + 1)
    IN IF u16 >= 32768 THEN u16 - 65536 ELSE u16

\* C18: a continuous value is clamped to the signed 16-bit range when it is
\* encoded, never wrapped
C18_FieldClamped ==
    Encoded =>
        \A k \in 0..(NumFields - 1) :
            DecodedField(k) = Clamp(LastValue(FieldCodes[k + 1]), -32768, 32767)

\* C19: the hat field is 15 when the entries have no ABS_HAT0X or ABS_HAT0Y
\* or both are 0; otherwise it is the compass index 0-7 that the
\* multiplexer's Hat function gives for the same pair, decided by the signs
\* alone with a missing axis counting as 0
C19_HatField ==
    Encoded =>
        LET x == LastValue("ABS_HAT0X")
            y == LastValue("ABS_HAT0Y")
            hat == ByteAt(16) % 16
        IN /\ (x = 0 /\ y = 0) => hat = 15
           /\ (x # 0 \/ y # 0) =>
                  /\ hat \in 0..7
                  /\ hat = HatAngle(x, y).val
                  /\ hat = HatTable(Signum(x), Signum(y))

\* hat pushed left by -1001 and down by 1 points to 5
C19_Witness ==
    /\ Encoded
    /\ state = <<<<"ABS_HAT0X", -1001>>, <<"ABS_HAT0Y", 1>>>>
    /\ ByteAt(16) % 16 = 5

Reorderings(n) ==
    {perm \in [1..n -> 1..n] : \A i, j \in 1..n : i # j => perm[i] # perm[j]}

NoDuplicateCode ==
    \A i, j \in 1..Len(state) : i # j => state[i][1] # state[j][1]

\* the entries that no later entry for the same code follows
RECURSIVE LastEntriesFrom(_)
LastEntriesFrom(i) ==
    IF i > Len(state) THEN <<>>
    ELSE IF \E j \in (i + 1)..Len(state) : state[j][1] = state[i][1]
         THEN LastEntriesFrom(i + 1)
         ELSE <<state[i]>> \o LastEntriesFrom(i + 1)

\* C20: the report depends only on the last entry for each code: any
\* reordering of entries with no code twice gives the same bytes, and a later
\* entry for a code overwrites an earlier one, a later 0 clearing a button
C20_LastEntryWins ==
    Encoded =>
        /\ NoDuplicateCode =>
               \A perm \in Reorderings(Len(state)) :
                   make_report([i \in 1..Len(state) |-> state[perm[i]]]) = bytes
        /\ bytes = make_report(LastEntriesFrom(1))
        /\ \A i \in 0..(NumButtons - 1) :
               (HasEntry(ButtonCodes[i + 1]) /\ ~Pressed(i)) =>
                   Bit(ByteAt(16 + ((i + 4) \div 8)), (i + 4) % 8) = 0

\* the trigger pressed, x set, then the trigger released
C20_Witness ==
    /\ Encoded
    /\ state = <<<<"BTN_TRIGGER", 1>>, <<"ABS_X", 1>>, <<"BTN_TRIGGER", 0>>>>
    /\ ByteAt(16) = 15
    /\ ByteAt(0) = 1

\* the codes that have an arm of their own in make_report's match
RecognizedCodes ==
    Range(FieldCodes) \cup {"ABS_HAT0X", "ABS_HAT0Y"} \cup Range(ButtonCodes)

IsRecognized(entry) == entry[1] \in RecognizedCodes

\* C21: entries whose code is not in the recognized set are ignored: the
\* report of a list is the report of the same list with those entries
\* removed, and a report of 22 bytes is always produced
C21_UnrecognizedIgnored ==
    Encoded =>
        /\ bytes = make_report(SelectSeq(state, IsRecognized))
        /\ Len(bytes) = ReportLen
        /\ (\A i \in 1..Len(state) : ~IsRecognized(state[i])) =>
               bytes = EmptyReportBytes

\* an unrecognized entry between an axis and a button
C21_Witness ==
    /\ Encoded
    /\ state = <<<<"ABS_X", 1>>, <<"ABS_MISC", 1>>, <<"BTN_TRIGGER", 1>>>>
    /\ ByteAt(0) = 1
    /\ ByteAt(16) = 31

(***************************************************************************)
(* Polarity and range of the rescale                                       *)
(***************************************************************************)
\* the inputs of the configured LargestMagnitude axes
ConfiguredInputs ==
    UNION {{axes[o].inputs[i] : i \in 1..Len(axes[o].inputs)} :
              o \in AxesOfKind("LargestMagnitude")}

\* the last raw value of the input lies between its bounds, in either order
InRange(input) ==
    /\ Observed(input.id)
    /\ input.lower_bound # input.upper_bound
    /\ \/ /\ input.lower_bound <= axis_states[input.id]
          /\ axis_states[input.id] <= input.upper_bound
       \/ /\ input.upper_bound <= axis_states[input.id]
          /\ axis_states[input.id] <= input.lower_bound

\* C28 as stated: for every raw value within the range the rescaled value
\* under swapped bounds is the arithmetic negation of the rescaled value
\* under the bounds as given, and negating an InputAxis twice gives it back
C28_NegIsNegation ==
    \A input \in ConfiguredInputs :
        /\ Neg(Neg(input)) = input
        /\ InRange(input) =>
               Candidate(Neg(input)).val = -Candidate(input).val

\* C28: negating an InputAxis swaps its bounds and negating twice gives it
\* back; for a raw value within the range the rescaled value under swapped
\* bounds is the negation of the other when the division is exact and one
\* less than that when it is not (each division truncates toward zero), so
\* the two bounds map to -32767 and 32767 exchanged
C28_NegWithinOne ==
    \A input \in ConfiguredInputs :
        /\ Neg(input).lower_bound = input.upper_bound
        /\ Neg(input).upper_bound = input.lower_bound
        /\ Neg(input).id = input.id
        /\ Neg(Neg(input)) = input
        /\ InRange(input) =>
               LET c == Candidate(input).val
                   n == Candidate(Neg(input)).val
                   v == axis_states[input.id]
                   exact == MulDivMagnitude(v - input.lower_bound, 65534,
                                input.upper_bound - input.lower_bound)[2] = 0
               IN /\ Candidate(input).tag = "Some"
                  /\ Candidate(Neg(input)).tag = "Some"
                  /\ exact => n = -c
                  /\ ~exact => n = -c - 1
                  /\ v = input.lower_bound => (c = -32767 /\ n = 32767)
                  /\ v = input.upper_bound => (c = 32767 /\ n = -32767)

\* the inverted axis (5, -5) at raw 1: -6554, and 6553 once negated
C28_Witness ==
    LET input == InputAxis(InputAxisId(0, "ABS_X"), 5, -5) IN
    /\ input \in ConfiguredInputs
    /\ Observed(input.id)
    /\ axis_states[input.id] = 1
    /\ Candidate(input) = Some(-6554)
    /\ Candidate(Neg(input)) = Some(6553)

\* the i16 that two bytes hold, low byte first
DecodeI16(low, high) ==
    IF low + 256 * high >= 32768 THEN low + 256 * high - 65536
    ELSE low + 256 * high

\* C29: for an input with lower_bound # upper_bound and a raw value between
\* the bounds (in either order) the candidate lies in [-32767, 32767]; so
\* when every observed input of a LargestMagnitude axis is in range, its
\* snapshot value fits 16 bits and the report field of the snapshot, read
\* back as a little-endian i16, is the snapshot value
C29_InRangeFits ==
    /\ \A input \in ConfiguredInputs :
           InRange(input) =>
               /\ Candidate(input).tag = "Some"
               /\ -32767 <= Candidate(input).val
               /\ Candidate(input).val <= 32767
    /\ \A o \in AxesOfKind("LargestMagnitude") :
           (\A i \in 1..Len(axes[o].inputs) :
                Observed(axes[o].inputs[i].id) => InRange(axes[o].inputs[i]))
           => /\ output.tag = "Some"
              /\ -32767 <= SnapshotValue(o) /\ SnapshotValue(o) <= 32767
              /\ LET report == make_report(output.val)
                     k == IndexOf(FieldCodes, o) - 1
                 IN DecodeI16(report[2 * k + 1], report[2 * k + 2])
                        = SnapshotValue(o)

\* both inputs in range, the snapshot value negative
C29_Witness ==
    \E o \in AxesOfKind("LargestMagnitude") :
        /\ axes[o].inputs = <<InputAxis(InputAxisId(0, "ABS_X"), -5, 5),
                              InputAxis(InputAxisId(1, "ABS_X"), 0, 255)>>
        /\ Observed(InputAxisId(0, "ABS_X"))
        /\ Observed(InputAxisId(1, "ABS_X"))
        /\ axis_states[InputAxisId(0, "ABS_X")] = -1
        /\ axis_states[InputAxisId(1, "ABS_X")] = 1
        /\ SnapshotValue(o) = -32511
        /\ make_report(output.val)[1] = 1
        /\ make_report(output.val)[2] = 129

(***************************************************************************)
(* get_input_axes (src/src/main.rs): the InputAxis of every channel of a   *)
(* device                                                                  *)
(***************************************************************************)
\* the codes of EventCodeIterator over EV_ABS, over EV_REL, and a key code
AbsCodes == {"ABS_X", "ABS_Y"}

RelCodes == {"REL_X", "REL_Y"}

KeyCodes == {"BTN_TRIGGER"}

\* the ranges a device reports for an absolute axis
AbsRanges == {<<0, 255>>, <<-5, 5>>}

\* a device: its id, the range of every absolute axis it has (abs_info is
\* Some exactly for those), and every code it has
Devices ==
    {[id |-> id, abs |-> abs, has |-> DOMAIN abs \cup rel \cup key] :
        id \in JoystickIds,
        abs \in UNION {[codes -> AbsRanges] : codes \in SUBSET AbsCodes},
        rel \in SUBSET RelCodes,
        key \in SUBSET KeyCodes}

\* get_input_axes(device, id): one entry for each EV_ABS and EV_REL code
\* with abs_info or that the device has
get_input_axes(dev) ==
    [code \in {c \in AbsCodes \cup RelCodes :
                  c \in DOMAIN dev.abs \/ c \in dev.has} |->
        IF code \in DOMAIN dev.abs
        THEN InputAxis(InputAxisId(dev.id, code),
                       dev.abs[code][1], dev.abs[code][2])
        ELSE InputAxis(InputAxisId(dev.id, code), -1000, 1000)]

InitDev ==
    /\ axis_states = <<>>
    /\ axes = <<>>
    /\ output_s = FALSE
    /\ chan = <<>>
    /\ state = <<>>
    /\ bytes = <<>>
    /\ RunIdle
    /\ device \in {Some(dev) : dev \in Devices}
    /\ input_axes = None

GetInputAxes ==
    /\ input_axes = None
    /\ input_axes' = Some(get_input_axes(device.val))
    /\ UNCHANGED <<axis_states, axes, output_s, chan, state, bytes, runvars,
                   device>>

NextDev == GetInputAxes

SpecDev == InitDev /\ [][NextDev]_vars

\* C27: a channel for which the device exposes no range gets the default
\* bounds [-350, 350] when it is an absolute or relative axis and [0, 1]
\* when it is a button; a channel with a reported range gets the reported
\* minimum and maximum
C27_DefaultBounds ==
    input_axes.tag = "Some" =>
        \A code \in device.val.has :
            /\ code \in DOMAIN input_axes.val
            /\ LET axis == input_axes.val[code] IN
               IF code \in DOMAIN device.val.abs
               THEN /\ axis.lower_bound = device.val.abs[code][1]
                    /\ axis.upper_bound = device.val.abs[code][2]
               ELSE IF code \in KeyCodes
               THEN axis.lower_bound = 0 /\ axis.upper_bound = 1
               ELSE axis.lower_bound = -350 /\ axis.upper_bound = 350

(***************************************************************************)
(* run_gadget (src/src/main.rs): one handle_device thread and one bounded  *)
(* channel for every device, the main loop that selects over the channels  *)
(* and updates the multiplexer, and the thread that receives its output    *)
(***************************************************************************)
\* the axes run_gadget configures before it starts the threads: every
\* output axis is the LargestMagnitude of one axis of each of two devices,
\* with the bounds get_input_axes gives a channel without a range
RunAxes ==
    [o \in {"ABS_X"} |->
        LargestMagnitude(<<InputAxis(InputAxisId(0, "ABS_X"), -1000, 1000),
                           InputAxis(InputAxisId(1, "ABS_X"), -1000, 1000)>>)]

\* the positions of a handle_device loop: about to read, back at the top
\* after a read that failed, and in send with the event it read
AtRead == [pc |-> "read", ev |-> <<>>]

AtFailed == [pc |-> "failed", ev |-> <<>>]

AtSend(ev) == [pc |-> "send", ev |-> ev]

\* the positions of the main loop: in select!, and in the send of
\* send_output for a barrier of this device
InSelect == [pc |-> "select", joystick |-> 0]

InSendOutput(joystick) == [pc |-> "send", joystick |-> joystick]

TotalReads == Len(read[0]) + Len(read[1])

\* the events a device can deliver next. Device 0 delivers an axis event or
\* the barrier; device 1 delivers an axis event and the barrier in turn, as
\* evdev closes each event with a SYN. The k-th event of a device carries
\* the value k (device 0) or -k (device 1), which tells the events apart
NextEvents(joystick) ==
    LET k == Len(read[joystick]) + 1 IN
    IF joystick = 0
    THEN {<<"ABS_X", k>>, <<SynCode, 0>>}
    ELSE IF k % 2 = 1 THEN {<<"ABS_X", -k>>} ELSE {<<SynCode, 0>>}

InitRun ==
    /\ axis_states = <<>>
    /\ axes = RunAxes
    /\ output_s = TRUE
    /\ chan = <<>>
    /\ state = <<>>
    /\ bytes = <<>>
    /\ updates = [joystick \in JoystickIds |-> <<>>]
    /\ worker = [joystick \in JoystickIds |-> AtRead]
    /\ main = InSelect
    /\ read = [joystick \in JoystickIds |-> <<>>]
    /\ applied = [joystick \in JoystickIds |-> 0]
    /\ taken = <<>>
    /\ received = <<>>
    /\ accessed = {}
    /\ DevIdle

\* handle_device: device.next_event returns Ok(ev)
ReadOk(joystick) ==
    /\ worker[joystick].pc \in {"read", "failed"}
    /\ TotalReads < MaxReads
    /\ \E ev \in NextEvents(joystick) :
           /\ worker' = [worker EXCEPT ![joystick] = AtSend(ev)]
           /\ read' = [read EXCEPT ![joystick] = Append(@, ev)]
    /\ UNCHANGED <<axis_states, axes, output_s, chan, state, bytes, updates,
                   main, applied, taken, received, accessed, devvars>>

\* a failed read that ends the thread
ReadFailStops(joystick) ==
    /\ worker[joystick].pc \in {"read", "failed"}
    /\ worker' = [worker EXCEPT ![joystick] = [pc |-> "stopped", ev |-> <<>>]]
    /\ UNCHANGED <<axis_states, axes, output_s, chan, state, bytes, updates,
                   main, read, applied, taken, received, accessed, devvars>>

\* handle_device: device.next_event returns Err; the loop goes round
ReadFail(joystick) ==
    /\ worker[joystick].pc \in {"read", "failed"}
    /\ worker' = [worker EXCEPT ![joystick] = AtFailed]
    /\ UNCHANGED <<axis_states, axes, output_s, chan, state, bytes, updates,
                   main, read, applied, taken, received, accessed, devvars>>

\* a send that gives the event up when the channel is full
SendOrDrop(joystick) ==
    /\ worker[joystick].pc = "send"
    /\ updates' = [updates EXCEPT ![joystick] =
                      IF Len(@) < ChannelCap
                      THEN Append(@, worker[joystick].ev) ELSE @]
    /\ worker' = [worker EXCEPT ![joystick] = AtRead]
    /\ UNCHANGED <<axis_states, axes, output_s, chan, state, bytes, main,
                   read, applied, taken, received, accessed, devvars>>

\* handle_device: updates.send(..), which waits while the channel is full
Send(joystick) ==
    /\ worker[joystick].pc = "send"
    /\ Len(updates[joystick]) < ChannelCap
    /\ updates' = [updates EXCEPT ![joystick] = Append(@, worker[joystick].ev)]
    /\ worker' = [worker EXCEPT ![joystick] = AtRead]
    /\ UNCHANGED <<axis_states, axes, output_s, chan, state, bytes, main,
                   read, applied, taken, received, accessed, devvars>>

\* a receive that takes the newest message of the channel
SelectNewest(joystick) ==
    /\ main.pc = "select"
    /\ updates[joystick] # <<>>
    /\ LET n == Len(updates[joystick])
           ev == updates[joystick][n]
       IN /\ updates' = [updates EXCEPT ![joystick] = SubSeq(@, 1, n - 1)]
          /\ applied' = [applied EXCEPT ![joystick] = @ + 1]
          /\ accessed' = accessed \cup {"main"}
          /\ IF ev[1] = SynCode
             THEN /\ main' = InSendOutput(joystick)
                  /\ UNCHANGED <<axis_states, axes, output_s, chan, state,
                                 bytes, devvars>>
             ELSE /\ update(joystick, ev[1], ev[2])
                  /\ main' = main
    /\ UNCHANGED <<worker, read, taken, received>>

\* a main loop that receives from the channel of device 0 alone
SelectFirstOnly(joystick) ==
    /\ joystick = 0
    /\ main.pc = "select"
    /\ updates[joystick] # <<>>
    /\ LET ev == Head(updates[joystick]) IN
          /\ updates' = [updates EXCEPT ![joystick] = Tail(@)]
          /\ applied' = [applied EXCEPT ![joystick] = @ + 1]
          /\ accessed' = accessed \cup {"main"}
          /\ IF ev[1] = SynCode
             THEN /\ main' = InSendOutput(joystick)
                  /\ UNCHANGED <<axis_states, axes, output_s, chan, state,
                                 bytes, devvars>>
             ELSE /\ update(joystick, ev[1], ev[2])
                  /\ main' = main
    /\ UNCHANGED <<worker, read, taken, received>>

\* the main loop: select! receives the oldest message of a channel that has
\* one and calls mux.update, which for a barrier goes on to send_output
Select(joystick) ==
    /\ main.pc = "select"
    /\ updates[joystick] # <<>>
    /\ LET ev == Head(updates[joystick]) IN
          /\ updates' = [updates EXCEPT ![joystick] = Tail(@)]
          /\ applied' = [applied EXCEPT ![joystick] = @ + 1]
          /\ accessed' = accessed \cup {"main"}
          /\ IF ev[1] = SynCode
             THEN /\ main' = InSendOutput(joystick)
                  /\ UNCHANGED <<axis_states, axes, output_s, chan, state,
                                 bytes, devvars>>
             ELSE /\ update(joystick, ev[1], ev[2])
                  /\ main' = main
    /\ UNCHANGED <<worker, read, taken, received>>

\* the main loop inside mux.update for a barrier: send_output sends the
\* snapshot once the output channel has room
SendOutput ==
    /\ main.pc = "send"
    /\ update(main.joystick, SynCode, 0)
    /\ taken' = Append(taken, chan'[Len(chan')])
    /\ main' = InSelect
    /\ UNCHANGED <<updates, worker, read, applied, received, accessed>>

\* a receive that leaves the message in the channel
RecvOutputPeek ==
    /\ chan # <<>>
    /\ received' = Append(received, Head(chan))
    /\ accessed' = accessed \cup {"output"}
    /\ UNCHANGED <<axis_states, axes, output_s, chan, state, bytes, updates,
                   worker, main, read, applied, taken, devvars>>

\* the output thread: update_r.recv() returns a message and the thread
\* reads mux.output
RecvOutput ==
    /\ chan # <<>>
    /\ received' = Append(received, Head(chan))
    /\ chan' = Tail(chan)
    /\ accessed' = accessed \cup {"output"}
    /\ UNCHANGED <<axis_states, axes, output_s, state, bytes, updates,
                   worker, main, read, applied, taken, devvars>>

NextRun ==
    \/ \E joystick \in JoystickIds : ReadOk(joystick)
    \/ \E joystick \in JoystickIds : ReadFail(joystick)
    \/ \E joystick \in JoystickIds : Send(joystick)
    \/ \E joystick \in JoystickIds : Select(joystick)
    \/ SendOutput
    \/ RecvOutput

SpecRun == InitRun /\ [][NextRun]_vars

\* the scheduler runs every thread that can take a step: a worker in send
\* with room in its channel, the main loop with a message to select or a
\* snapshot to send, the output thread with a message to receive.  A device
\* need not deliver an event
\* SendOutput can be taken exactly when the main loop is in send_output and
\* the output channel has room
SendOutputEnabled == main.pc = "send" /\ Len(chan) < MaxChan

\* every thread that can take a step is eventually scheduled: the workers
\* (Send), the main loop (Select, SendOutput) and the output thread
\* (RecvOutput). Reading an event is up to the device and is not fair. The
\* condition on SendOutput is WF_vars(SendOutput) with its enabling
\* condition written out
Fairness ==
    /\ \A joystick \in JoystickIds : WF_vars(Send(joystick))
    /\ \A joystick \in JoystickIds : WF_vars(Select(joystick))
    /\ \/ []<>(~SendOutputEnabled)
       \/ []<><<SendOutput>>_vars
    /\ WF_vars(RecvOutput)

SpecRunFair == InitRun /\ [][NextRun]_vars /\ Fairness

\* the events of a device that its worker has put in the channel so far
Enqueued(joystick) == applied[joystick] + Len(updates[joystick])

IsBarrier(ev) == ev[1] = SynCode

\* the barriers among the first n events of a device
BarriersAmong(joystick, n) ==
    Cardinality({k \in 1..n : IsBarrier(read[joystick][k])})

BarriersEnqueued ==
    BarriersAmong(0, Enqueued(0)) + BarriersAmong(1, Enqueued(1))

\* everything enqueued so far has been applied and every barrier enqueued
\* so far has had its OutputState received
Drained ==
    /\ \A joystick \in JoystickIds : applied[joystick] = Enqueued(joystick)
    /\ Len(received) = BarriersEnqueued

AxisEventsAmong(joystick, n) ==
    {k \in 1..n : ~IsBarrier(read[joystick][k])}

GreatestOf(S) == CHOOSE k \in S : \A other \in S : other <= k

\* the raw state of a device's axis is what its first n events, applied in
\* the order read, leave behind: unobserved when none of them is an axis
\* event, otherwise the value of the last axis event among them
ReflectsPrefix(joystick, n) ==
    LET id == InputAxisId(joystick, "ABS_X")
        ks == AxisEventsAmong(joystick, n)
    IN IF ks = {}
       THEN id \notin DOMAIN axis_states
       ELSE /\ id \in DOMAIN axis_states
            /\ axis_states[id] = read[joystick][GreatestOf(ks)][2]

\* C22: the events of one device are queued and applied in the order its
\* worker read them, barriers in their place among them: the channel holds
\* the events that follow the applied ones, in read order, and the raw state
\* reflects exactly the applied prefix. While the main loop is in
\* send_output for a barrier of a device, the last applied event of that
\* device is that barrier, so the snapshot being sent reflects every update
\* the device sent before the barrier and none it sent after
C22_OrderPerSource ==
    /\ \A joystick \in JoystickIds :
           /\ applied[joystick] + Len(updates[joystick]) <= Len(read[joystick])
           /\ updates[joystick] =
                  SubSeq(read[joystick], applied[joystick] + 1,
                         applied[joystick] + Len(updates[joystick]))
           /\ ReflectsPrefix(joystick, applied[joystick])
    /\ main.pc = "send" =>
           /\ applied[main.joystick] >= 1
           /\ IsBarrier(read[main.joystick][applied[main.joystick]])

\* the main loop is in send_output for a barrier of device 0 after an axis
\* update of device 0 was applied, with a later axis update of device 0
\* still in the channel
C22_Witness ==
    /\ main.pc = "send"
    /\ main.joystick = 0
    /\ InputAxisId(0, "ABS_X") \in DOMAIN axis_states
    /\ \E k \in 1..Len(updates[0]) : ~IsBarrier(updates[0][k])

\* the event a worker holds in send, if it is in send
InFlight(joystick) == IF worker[joystick].pc = "send" THEN 1 ELSE 0

\* C23: a device channel never holds more than its capacity of 5 messages;
\* a worker whose channel is full cannot complete its send and waits; and
\* no event that was read is lost or doubled: the events read from a device
\* are, in number, those applied, those in the channel and the one its
\* worker holds in send, the one held being the last one read
C23_BoundedLossless ==
    \A joystick \in JoystickIds :
        /\ Len(updates[joystick]) <= ChannelCap
        /\ (worker[joystick].pc = "send"
              /\ Len(updates[joystick]) = ChannelCap)
               => ~ENABLED <<Send(joystick)>>_vars
        /\ Len(read[joystick]) =
               applied[joystick] + Len(updates[joystick]) + InFlight(joystick)
        /\ worker[joystick].pc = "send" =>
               worker[joystick].ev = read[joystick][Len(read[joystick])]

\* the channel of device 0 holds five messages and its worker waits in send
\* with a sixth
C23_Witness ==
    /\ Len(updates[0]) = ChannelCap
    /\ worker[0].pc = "send"
    /\ Len(read[0]) = ChannelCap + 1 + applied[0]

\* the barriers among the first n events of a read history
BarriersIn(history, n) ==
    Cardinality({k \in 1..n : IsBarrier(history[k])})

\* the barriers that send_output has been completed for, after a step: the
\* barriers applied, less the one the main loop is still in send_output for
BarriersProcessedAfter(appliedAfter, readAfter, mainAfter) ==
    BarriersIn(readAfter[0], appliedAfter[0])
        + BarriersIn(readAfter[1], appliedAfter[1])
        - (IF mainAfter.pc = "send" THEN 1 ELSE 0)

C25_SingleOwner == accessed \subseteq {"main"}

\* C26: a read that fails sends nothing and changes neither the
\* multiplexer nor any channel or history; it leaves the worker in its
\* loop, never stopped; and the only way on from a failed read is the next
\* read, whose event the worker takes to send as after any read
C26_FailedReadHarmless ==
    [][\A joystick \in JoystickIds :
           /\ (worker[joystick].pc # "failed"
                 /\ worker'[joystick].pc = "failed") =>
                  /\ worker[joystick].pc = "read"
                  /\ UNCHANGED <<axis_states, axes, output_s, chan, updates,
                                 read, applied, taken, received, main>>
           /\ (worker[joystick].pc = "failed"
                 /\ worker'[joystick] # worker[joystick]) =>
                  \E ev \in NextEvents(joystick) :
                      /\ worker'[joystick] = AtSend(ev)
                      /\ read'[joystick] = Append(read[joystick], ev)
                      /\ UNCHANGED <<axis_states, updates>>
           /\ worker'[joystick].pc \in {"read", "failed", "send"}]_vars

\* the worker of device 0 is back at the top of its loop after a failed
\* read, with events of its device applied and others still in its channel
C26_Witness ==
    /\ worker[0].pc = "failed"
    /\ applied[0] >= 1
    /\ updates[0] # <<>>
    /\ InputAxisId(0, "ABS_X") \in DOMAIN axis_states

====
